---- MODULE Spec2Model ----
(***************************************************************************)
(* DATIS station.rs: the ATIS report composer (Station::generate_report),  *)
(* the weather lookup (Station::get_current_weather, non-test build) and   *)
(* the runway selector (Station::get_active_runway).                       *)
(*                                                                         *)
(* f64 values are fixed-point integers.  Angles (the argument of           *)
(* get_active_runway, WeatherInfo.wind_dir) are in thousandths (Scale):    *)
(* 3142 is 3.142.  wind_speed is in tenths of m/s, temperature in          *)
(* hundredths of a degree celsius, pressure in whole pascal.  Strings are  *)
(* TLA+ strings; Option<T> is a sequence of length 0 (None) or 1 (Some).   *)
(***************************************************************************)
EXTENDS Integers, Sequences, FiniteSets, TLC

VARIABLES station, pc, wind_arg, active, report_nr, fetch, queried, weather, result

vars == <<station, pc, wind_arg, active, report_nr, fetch, queried, weather, result>>

----------------------------------------------------------------------------
(* Bounds of the model *)

\* longest runway list of the exhaustive selector specification
MaxRunways == 2
\* wind directions handed to get_active_runway: -(MaxWindDeg+1)/2 .. MaxWindDeg degrees
MaxWindDeg == 719
\* report sequence numbers 0 .. MaxReportNr
MaxReportNr == 27

\* fixed-point resolution of an angle: thousandths
Scale == 10 * 10 * 10

----------------------------------------------------------------------------
(* Option and Result *)

None == <<>>
Some(v) == <<v>>
Ok(v) == [ok |-> TRUE, val |-> v, err |-> ""]
Err(e) == [ok |-> FALSE, val |-> "", err |-> e]

----------------------------------------------------------------------------
(* Numbers and their text *)

AbsF(x) == IF x < 0 THEN -x ELSE x

\* f64::round: to the nearest integer, halves away from zero (here of a / b, b > 0)
RoundDiv(a, b) == IF a >= 0 THEN (2 * a + b) \div (2 * b) ELSE -((2 * (-a) + b) \div (2 * b))

Digits == "0123456789"
DigitChar(d) == SubSeq(Digits, d + 1, d + 1)
IsDigit(c) == c \in {"0", "1", "2", "3", "4", "5", "6", "7", "8", "9"}
DigitVal(c) ==
    CASE c = "0" -> 0 [] c = "1" -> 1 [] c = "2" -> 2 [] c = "3" -> 3 [] c = "4" -> 4
      [] c = "5" -> 5 [] c = "6" -> 6 [] c = "7" -> 7 [] c = "8" -> 8 [] c = "9" -> 9

RECURSIVE NatToString(_)
NatToString(n) == IF n < 10 THEN DigitChar(n) ELSE NatToString(n \div 10) \o DigitChar(n % 10)

RECURSIVE StripZeros(_)
StripZeros(s) ==
    IF Len(s) > 0 /\ SubSeq(s, Len(s), Len(s)) = "0" THEN StripZeros(SubSeq(s, 1, Len(s) - 1)) ELSE s

RECURSIVE PadLeft(_, _)
PadLeft(s, w) == IF Len(s) >= w THEN s ELSE PadLeft("0" \o s, w)

Pow10(dec) == IF dec = 0 THEN 1 ELSE IF dec = 1 THEN 10 ELSE IF dec = 2 THEN 100 ELSE 1000

\* f64's Display (to_string) of the number n / 10^dec: shortest text, no ".0"
F64ToString(n, dec) ==
    LET a == AbsF(n)
        frac == StripZeros(PadLeft(NatToString(a % Pow10(dec)), dec))
    IN  (IF n < 0 THEN "-" ELSE "") \o NatToString(a \div Pow10(dec))
            \o (IF dec = 0 \/ frac = "" THEN "" ELSE "." \o frac)

\* str::parse::<f64> on the alphabet of the modelled identifiers (digits, sign,
\* the letters L, R, C): an optional sign and at least one digit; in thousandths
RECURSIVE AllDigits(_)
AllDigits(s) == Len(s) = 0 \/ (IsDigit(Head(s)) /\ AllDigits(Tail(s)))

RECURSIVE DigitsValue(_)
DigitsValue(s) ==
    IF Len(s) = 0 THEN 0
    ELSE 10 * DigitsValue(SubSeq(s, 1, Len(s) - 1)) + DigitVal(SubSeq(s, Len(s), Len(s)))

parse_f64(s) ==
    LET signed == Len(s) > 0 /\ SubSeq(s, 1, 1) \in {"+", "-"}
        body == IF signed THEN SubSeq(s, 2, Len(s)) ELSE s
        neg == signed /\ SubSeq(s, 1, 1) = "-"
    IN  IF Len(body) > 0 /\ AllDigits(body)
        THEN [ok |-> TRUE, val |-> (IF neg THEN -1 ELSE 1) * DigitsValue(body) * Scale]
        ELSE [ok |-> FALSE, val |-> 0]

\* f64::to_degrees of an angle in thousandths of a radian, in thousandths of a
\* degree: 180/pi = 57.29578
to_degrees(w) == w * 57 + (w * 29578) \div 100000

----------------------------------------------------------------------------
(* utils.rs and weather.rs: collaborators of station.rs *)

\* utils::pronounce_number: character by character, "." is DECIMAL, 9 is NINER,
\* every other character itself; the tokens joined by single spaces
pronounce_char(c) == IF c = "." THEN "DECIMAL" ELSE IF c = "9" THEN "NINER" ELSE c

RECURSIVE pronounce_number(_)
pronounce_number(s) ==
    IF Len(s) = 0 THEN ""
    ELSE IF Len(s) = 1 THEN pronounce_char(s)
    ELSE pronounce_char(SubSeq(s, 1, 1)) \o " " \o pronounce_number(SubSeq(s, 2, Len(s)))

\* utils::round(n, decimals), of n / 10^from, as an integer number of 10^-decimals
round(n, from, decimals) == RoundDiv(n, Pow10(from - decimals))

\* StaticWeather::get_clouds_report: a ready-made sentence fragment
get_clouds_report(static_weather) == static_weather.clouds_report

----------------------------------------------------------------------------
(* station.rs *)

PHONETIC_ALPHABET ==
    << "Alpha", "Bravo", "Charlie", "Delta", "Echo", "Foxtrot", "Golf", "Hotel", "India",
       "Juliett", "Kilo", "Lima", "Mike", "November", "Oscar", "Papa", "Quebec", "Romeo",
       "Sierra", "Tango", "Uniform", "Victor", "Whiskey", "X-ray", "Yankee", "Zulu" >>

\* a variant of information_letter: the modulus one short of the table's length
information_letter_short(nr) == PHONETIC_ALPHABET[(nr % (Len(PHONETIC_ALPHABET) - 1)) + 1]

\* let information_letter = PHONETIC_ALPHABET[report_nr % PHONETIC_ALPHABET.len()];
information_letter(nr) == PHONETIC_ALPHABET[(nr % Len(PHONETIC_ALPHABET)) + 1]

\* the query get_current_weather sends to the weather provider
weather_query(st) == [x |-> st.airfield.position.x, y |-> st.airfield.position.y, alt |-> 0]

\* a variant of get_current_weather: a failed fetch replaced by default weather
get_current_weather_or_default(st, answer) ==
    LET info == IF answer.ok THEN answer.val
                ELSE [wind_speed |-> 0, wind_dir |-> 0, temperature |-> 0, pressure |-> 0]
    IN  [queried |-> <<weather_query(st)>>,
         ret |-> IF st.weather_kind = "Static"
                 THEN Ok([info EXCEPT !.wind_speed = st.static_weather.wind.speed,
                                      !.wind_dir = st.static_weather.wind.dir])
                 ELSE Ok(info)]

\* a variant of get_current_weather: Static mode overrides the wind speed alone
get_current_weather_speed_only(st, answer) ==
    [queried |-> <<weather_query(st)>>,
     ret |-> IF ~answer.ok THEN Err(answer.err)
             ELSE IF st.weather_kind = "Static"
                  THEN Ok([answer.val EXCEPT !.wind_speed = st.static_weather.wind.speed])
                  ELSE Ok(answer.val)]

\* get_current_weather (not(test)): answer is what dynamic_weather.get_at returns
\* to the query; queried is the list of queries sent
get_current_weather(st, answer) ==
    [queried |-> <<weather_query(st)>>,
     ret |-> IF ~answer.ok THEN Err(answer.err)
             ELSE IF st.weather_kind = "Static"
                  THEN Ok([answer.val EXCEPT !.wind_speed = st.static_weather.wind.speed,
                                             !.wind_dir = st.static_weather.wind.dir])
                  ELSE Ok(answer.val)]

\* a variant of rwy_distance: the long way round is not folded back
rwy_distance_no_fold(wind_dir, rwy_dir) == AbsF(wind_dir - rwy_dir) % (360 * Scale)

\* let phi = (wind_dir - rwy_dir).abs() % 360.0;
\* let distance = if phi > 180.0 { 360.0 - phi } else { phi };
rwy_distance(wind_dir, rwy_dir) ==
    LET phi == AbsF(wind_dir - rwy_dir) % (360 * Scale)
    IN  IF phi > 180 * Scale THEN 360 * Scale - phi ELSE phi

\* a variant of rwy_in_use: the threshold exclusive
rwy_in_use_strict(wind_dir, rwy_dir) == rwy_distance(wind_dir, rwy_dir) < 90 * Scale

\* a variant of rwy_in_use: the difference is not made absolute (f64's % keeps the
\* sign of the dividend)
rwy_in_use_no_abs(wind_dir, rwy_dir) ==
    LET d == wind_dir - rwy_dir
        phi == IF d >= 0 THEN d % (360 * Scale) ELSE -((-d) % (360 * Scale))
    IN  (IF phi > 180 * Scale THEN 360 * Scale - phi ELSE phi) <= 90 * Scale

\* if distance <= 90.0
rwy_in_use(wind_dir, rwy_dir) == rwy_distance(wind_dir, rwy_dir) <= 90 * Scale

\* a variant of the loop: it goes on after a match, the last match wins
RECURSIVE active_runway_last(_, _, _)
active_runway_last(runways, wind_dir, i) ==
    IF i > Len(runways) THEN None
    ELSE LET later == active_runway_last(runways, wind_dir, i + 1)
             parsed == parse_f64(runways[i])
         IN  IF later # None THEN later
             ELSE IF parsed.ok /\ rwy_in_use(wind_dir, parsed.val * 10) THEN Some(runways[i])
             ELSE None

\* a variant of the loop: an identifier that does not parse ends the selection
RECURSIVE active_runway_abort(_, _, _)
active_runway_abort(runways, wind_dir, i) ==
    IF i > Len(runways) THEN None
    ELSE LET parsed == parse_f64(runways[i])
         IN  IF ~parsed.ok THEN None
             ELSE IF rwy_in_use(wind_dir, parsed.val * 10) THEN Some(runways[i])
             ELSE active_runway_abort(runways, wind_dir, i + 1)

\* the for loop of get_active_runway, from runway i on
RECURSIVE active_runway_from(_, _, _)
active_runway_from(runways, wind_dir, i) ==
    IF i > Len(runways) THEN None
    ELSE LET rwy == runways[i]
             parsed == parse_f64(rwy)
         IN  IF parsed.ok
             THEN IF rwy_in_use(wind_dir, parsed.val * 10)
                  THEN Some(rwy)
                  ELSE active_runway_from(runways, wind_dir, i + 1)
             ELSE active_runway_from(runways, wind_dir, i + 1)

get_active_runway(st, wind_dir) == active_runway_from(st.airfield.runways, wind_dir, 1)

\* the argument generate_report hands to get_active_runway
report_wind_arg(w) == w.wind_dir

opening_line(st, nr) ==
    "This is " \o st.name \o " information " \o information_letter(nr) \o ". "

runway_line(rwy) ==
    IF rwy # None THEN "Runway in use is " \o pronounce_number(rwy[1]) \o ". " ELSE ""

wind_line(w) ==
    LET wind_dir == PadLeft(F64ToString(RoundDiv(to_degrees(w.wind_dir), Scale), 0), 3)
    IN  "Wind " \o pronounce_number(wind_dir) \o " at "
            \o pronounce_number(F64ToString(RoundDiv(w.wind_speed * 194384, 1000000), 0))
            \o " knots. "

\* a variant of clouds_line: the cloud line in every weather mode
clouds_line_always(st) == get_clouds_report(st.static_weather) \o ". "

clouds_line(st) ==
    IF st.weather_kind = "Static" THEN get_clouds_report(st.static_weather) \o ". " ELSE ""

temperature_line(w) ==
    "Temperature " \o pronounce_number(F64ToString(round(w.temperature, 2, 1), 1))
        \o " celcius, ALTIMETER "
        \o pronounce_number(F64ToString(RoundDiv(w.pressure * 2953, 100000), 2)) \o ". "

traffic_line(st) ==
    IF st.traffic_freq # None
    THEN "Traffic frequency "
            \o pronounce_number(F64ToString(RoundDiv(st.traffic_freq[1], 1000), 3)) \o ". "
    ELSE ""

remarks_line(w) ==
    "REMARKS " \o pronounce_number(F64ToString(RoundDiv(w.pressure, 100), 0)) \o " hectopascal. "

closing_line(nr) == "End information " \o information_letter(nr) \o ". "

\* the report text, once the weather is there and the selector has answered
report_text(st, nr, w, rwy) ==
    opening_line(st, nr) \o runway_line(rwy) \o wind_line(w) \o clouds_line(st)
        \o temperature_line(w) \o traffic_line(st) \o remarks_line(w) \o closing_line(nr)

\* generate_report: what it returns, with the provider queries made, the weather
\* used, and the argument and the answer of the selector
generate_report(st, nr, answer) ==
    LET got == get_current_weather(st, answer)
        w == got.ret
    IN  IF ~w.ok
        THEN [queried |-> got.queried, weather |-> None, wind_arg |-> None, rwy |-> None,
              ret |-> Err(w.err)]
        ELSE LET arg == report_wind_arg(w.val)
                 rwy == get_active_runway(st, arg)
             IN  [queried |-> got.queried, weather |-> Some(w.val), wind_arg |-> Some(arg),
                  rwy |-> rwy, ret |-> Ok(report_text(st, nr, w.val, rwy))]

----------------------------------------------------------------------------
(* The inputs *)

RunwayIds == {"04", "22", "13", "04L", "-5"}

RECURSIVE RunwayLists(_)
RunwayLists(n) ==
    IF n = 0 THEN {<<>>}
    ELSE LET shorter == RunwayLists(n - 1)
         IN  shorter \cup {Append(l, r) : l \in {x \in shorter : Len(x) = n - 1}, r \in RunwayIds}

Airfields == {<<>>, <<"04", "22">>, <<"22", "04">>, <<"04L", "22">>, <<"22">>, <<"13L">>}

StaticWeathers ==
    {[wind |-> [speed |-> 50, dir |-> 5760], clouds_report |-> "Visibility 0"],
     [wind |-> [speed |-> 20, dir |-> 3142], clouds_report |-> "Visibility 0"]}

MakeStation(runways, kind, traffic, sw) ==
    [name |-> "Kutaisi", traffic_freq |-> traffic, weather_kind |-> kind, static_weather |-> sw,
     airfield |-> [name |-> "Kutaisi", position |-> [x |-> 0, y |-> 0, alt |-> 0],
                   runways |-> runways]]

Stations ==
    {MakeStation(r, k, t, sw) : r \in Airfields, k \in {"Static", "Dynamic"},
                                t \in {None, Some(249500000)}, sw \in StaticWeathers}

\* the station of test_active_runway, with every runway list up to MaxRunways
SelectorStations ==
    {MakeStation(r, "Static", None, [wind |-> [speed |-> 0, dir |-> 0],
                                      clouds_report |-> "Visibility 0"]) :
        r \in RunwayLists(MaxRunways)}

\* wind directions in whole degrees, below 0 and beyond 360 too, and fractions of a
\* degree around 130 and 310
WindInputs ==
    {d * Scale : d \in (-((MaxWindDeg + 1) \div 2))..MaxWindDeg}
        \cup {d * Scale + f : d \in {129, 130, 309, 310}, f \in {1, 500, 999}}

WeatherInfos ==
    [wind_speed : {30}, wind_dir : {0, 2269, 3142, 5411}, temperature : {2200, -350},
     pressure : {101500, 99480}]

ProviderAnswers == {Err("weather unavailable")} \cup {Ok(i) : i \in WeatherInfos}

----------------------------------------------------------------------------
(* The state machine: a station, and the last call made on it *)

Fresh ==
    /\ pc = "idle"
    /\ wind_arg = None
    /\ active = None
    /\ report_nr = 0
    /\ fetch = None
    /\ queried = <<>>
    /\ weather = None
    /\ result = None

Init == station \in Stations /\ Fresh

InitRunway == station \in SelectorStations /\ Fresh

\* station.get_active_runway(w), as test_active_runway calls it
GetActiveRunway(w) ==
    /\ pc = "idle"
    /\ pc' = "get_active_runway"
    /\ wind_arg' = Some(w)
    /\ active' = get_active_runway(station, w)
    /\ report_nr' = 0
    /\ fetch' = None
    /\ queried' = <<>>
    /\ weather' = None
    /\ result' = None
    /\ UNCHANGED station

\* station.generate_report(nr), the weather provider answering with answer
GenerateReport(nr, answer) ==
    LET r == generate_report(station, nr, answer)
    IN  /\ pc = "idle"
        /\ pc' = "generate_report"
        /\ report_nr' = nr
        /\ fetch' = Some(answer)
        /\ queried' = r.queried
        /\ weather' = r.weather
        /\ wind_arg' = r.wind_arg
        /\ active' = r.rwy
        /\ result' = Some(r.ret)
        /\ UNCHANGED station

\* the caller takes the value returned; the station is ready for its next call
Return ==
    /\ pc # "idle"
    /\ pc' = "idle"
    /\ wind_arg' = None
    /\ active' = None
    /\ report_nr' = 0
    /\ fetch' = None
    /\ queried' = <<>>
    /\ weather' = None
    /\ result' = None
    /\ UNCHANGED station

Next ==
    \/ \E w \in WindInputs : GetActiveRunway(w)
    \/ \E nr \in 0..MaxReportNr, answer \in ProviderAnswers : GenerateReport(nr, answer)
    \/ Return

NextRunway ==
    \/ \E w \in WindInputs : GetActiveRunway(w)
    \/ Return

Spec == Init /\ [][Next]_vars

SpecRunway == InitRunway /\ [][NextRunway]_vars

----------------------------------------------------------------------------
(* Reading a report back: its sentences, each ended by a period and a space *)

StartsWith(s, prefix) == Len(s) >= Len(prefix) /\ SubSeq(s, 1, Len(prefix)) = prefix

\* the place of the first ". " of s at or after i, 0 when there is none
RECURSIVE FirstStop(_, _)
FirstStop(s, i) ==
    IF i + 1 > Len(s) THEN 0
    ELSE IF SubSeq(s, i, i + 1) = ". " THEN i
    ELSE FirstStop(s, i + 1)

RECURSIVE Sentences(_)
Sentences(s) ==
    LET i == FirstStop(s, 1)
    IN  IF i = 0 THEN IF s = "" THEN <<>> ELSE <<s>>
        ELSE <<SubSeq(s, 1, i - 1)>> \o Sentences(SubSeq(s, i + 2, Len(s)))

RECURSIVE JoinSentences(_)
JoinSentences(ls) == IF ls = <<>> THEN "" ELSE Head(ls) \o ". " \o JoinSentences(Tail(ls))

LineKind(line) ==
    IF StartsWith(line, "This is ") THEN "opening"
    ELSE IF StartsWith(line, "Runway in use is ") THEN "runway"
    ELSE IF StartsWith(line, "Wind ") THEN "wind"
    ELSE IF StartsWith(line, "Temperature ") THEN "temperature"
    ELSE IF StartsWith(line, "Traffic frequency ") THEN "traffic"
    ELSE IF StartsWith(line, "REMARKS ") THEN "remarks"
    ELSE IF StartsWith(line, "End information ") THEN "closing"
    ELSE IF line = get_clouds_report(station.static_weather) THEN "clouds"
    ELSE "other"

Reported == pc = "generate_report" /\ result[1].ok
ReportLines == Sentences(result[1].val)
Selected == pc = "get_active_runway"
Runways == station.airfield.runways

\* the shorter of the two arcs between two directions
ShortestArc(a, b) ==
    LET cw == (a - b) % (360 * Scale)
        ccw == (b - a) % (360 * Scale)
    IN  IF cw <= ccw THEN cw ELSE ccw

Heading(rwy) == parse_f64(rwy).val * 10
Qualifies(rwy, w) == parse_f64(rwy).ok /\ ShortestArc(w, Heading(rwy)) <= 90 * Scale

----------------------------------------------------------------------------
(* The claims *)

\* C1: get_active_runway returns the first runway of the list, in the list's order,
\* whose identifier parses and whose shortest angular distance to the wind is at most
\* 90 degrees, also when a later runway is closer; and none exactly when no parsable
\* runway is within 90 degrees.
C1_FirstWithin90 ==
    Selected =>
        LET w == wind_arg[1]
            hits == {i \in 1..Len(Runways) : Qualifies(Runways[i], w)}
        IN  /\ (hits = {}) <=> (active = None)
            /\ hits # {} =>
                  active = Some(Runways[CHOOSE i \in hits : \A j \in hits : i <= j])

\* a later runway (13, dead into the wind) is closer than the first (04, at 90 degrees)
C1_Witness ==
    /\ Selected
    /\ Runways = <<"04", "13">>
    /\ wind_arg = Some(130 * Scale)
    /\ active = Some("04")

\* the runway a report names in its "Runway in use is" sentence, pronounced
RunwayNamed ==
    LET named == SelectSeq(ReportLines, LAMBDA l : LineKind(l) = "runway")
    IN  IF named = <<>> THEN None ELSE Some(SubSeq(named[1], 18, Len(named[1])))

\* C2: the runway a report names (or that it names none) is what get_active_runway
\* answers for the weather's wind direction converted to degrees.
C2_RunwayFromDegrees ==
    Reported =>
        LET rwy == get_active_runway(station, to_degrees(weather[1].wind_dir))
        IN  RunwayNamed = IF rwy = None THEN None ELSE Some(pronounce_number(rwy[1]))

\* C3, as stated: with runways 04 and 22, a wind in [310, 360) or [0, 130) selects 04
\* and a wind in [130, 310) selects 22.
C3_AsStated ==
    (Selected /\ Runways = <<"04", "22">>) =>
        LET w == wind_arg[1]
        IN  /\ (w >= 310 * Scale /\ w < 360 * Scale) \/ (w >= 0 /\ w < 130 * Scale)
                  => active = Some("04")
            /\ (w >= 130 * Scale /\ w < 310 * Scale) => active = Some("22")

\* C3, amended: with runways 04 and 22, a wind in [310, 360) or [0, 130] selects 04
\* and a wind in (130, 310) selects 22.
C3_Amended ==
    (Selected /\ Runways = <<"04", "22">>) =>
        LET w == wind_arg[1]
        IN  /\ (w >= 310 * Scale /\ w < 360 * Scale) \/ (w >= 0 /\ w <= 130 * Scale)
                  => active = Some("04")
            /\ (w > 130 * Scale /\ w < 310 * Scale) => active = Some("22")

C3_Witness ==
    /\ Selected
    /\ Runways = <<"04", "22">>
    /\ wind_arg = Some(130 * Scale + 1)
    /\ active = Some("22")

\* C4: the 90 degree threshold is inclusive and a tie goes to the earlier runway: with
\* runways 04 and 22 (and with 22 and 04), a wind of exactly 130 or exactly 310 degrees
\* is exactly 90 degrees from both headings and selects the first of the list.
C4_InclusiveTie ==
    (Selected /\ wind_arg[1] \in {130 * Scale, 310 * Scale}) =>
        /\ Runways = <<"04", "22">> => active = Some("04")
        /\ Runways = <<"22", "04">> => active = Some("22")

C4_Witness ==
    /\ Selected
    /\ Runways = <<"04", "22">>
    /\ wind_arg = Some(310 * Scale)
    /\ ShortestArc(310 * Scale, Heading("04")) = 90 * Scale
    /\ ShortestArc(310 * Scale, Heading("22")) = 90 * Scale
    /\ active = Some("04")

\* C5: generate_report returns an error exactly when the weather fetch fails, in
\* either weather mode, and then no report text; when the fetch succeeds it returns a
\* report whatever the runway list.
C5_ErrorIffFetchFails ==
    pc = "generate_report" =>
        /\ result[1].ok <=> fetch[1].ok
        /\ ~fetch[1].ok => result[1].val = "" /\ result[1].err = fetch[1].err
        /\ fetch[1].ok => Len(result[1].val) > 0

C5_Witness ==
    /\ pc = "generate_report"
    /\ station.weather_kind = "Static"
    /\ ~fetch[1].ok
    /\ ~result[1].ok
    /\ result[1].val = ""

\* the sentences a report must hold, in order
ExpectedKinds ==
    <<"opening">> \o (IF active # None THEN <<"runway">> ELSE <<>>) \o <<"wind">>
        \o (IF station.weather_kind = "Static" THEN <<"clouds">> ELSE <<>>)
        \o <<"temperature">>
        \o (IF station.traffic_freq # None THEN <<"traffic">> ELSE <<>>)
        \o <<"remarks", "closing">>

\* C6: a report is its sentences, each ended by a period and one space, in this order
\* and no others: opening; runway in use, if and only if the selector returned a
\* runway; wind; clouds, if and only if the mode is Static; temperature and altimeter;
\* traffic frequency, if and only if one is configured; remarks; closing.
C6_LinesInOrder ==
    Reported =>
        LET ls == ReportLines
        IN  /\ JoinSentences(ls) = result[1].val
            /\ \A i \in 1..Len(ls) : Len(ls[i]) > 0 /\ SubSeq(ls[i], 1, 1) # " "
            /\ [i \in 1..Len(ls) |-> LineKind(ls[i])] = ExpectedKinds

\* a Dynamic station with no traffic frequency and no runway in use: the four
\* optional sentences are all absent
C6_Witness ==
    /\ Reported
    /\ station.weather_kind = "Dynamic"
    /\ station.traffic_freq = None
    /\ active = None
    /\ Len(ReportLines) = 5

\* C7: identifiers that do not parse are skipped and do not end the selection:
\* get_active_runway answers as it does on the list without them, and none when no
\* identifier parses.
C7_UnparsableSkipped ==
    Selected =>
        LET parsable == SelectSeq(Runways, LAMBDA r : parse_f64(r).ok)
            st == [station EXCEPT !.airfield.runways = parsable]
        IN  /\ active = get_active_runway(st, wind_arg[1])
            /\ parsable = <<>> => active = None

C7_Witness ==
    /\ Selected
    /\ Runways = <<"04L", "22">>
    /\ wind_arg = Some(180 * Scale)
    /\ active = Some("22")

\* C8: in Static mode the weather of a report has the station's static wind speed and
\* direction and the provider's temperature and pressure, and the provider is queried
\* all the same; in Dynamic mode all four values are the provider's.
C8_StaticOverridesWind ==
    pc = "generate_report" =>
        /\ queried = <<[x |-> station.airfield.position.x, y |-> station.airfield.position.y,
                        alt |-> 0]>>
        /\ (weather # None) <=> fetch[1].ok
        /\ (fetch[1].ok /\ station.weather_kind = "Static") =>
              /\ weather[1].wind_speed = station.static_weather.wind.speed
              /\ weather[1].wind_dir = station.static_weather.wind.dir
              /\ weather[1].temperature = fetch[1].val.temperature
              /\ weather[1].pressure = fetch[1].val.pressure
        /\ (fetch[1].ok /\ station.weather_kind = "Dynamic") => weather[1] = fetch[1].val

C8_Witness ==
    /\ pc = "generate_report"
    /\ station.weather_kind = "Static"
    /\ fetch[1].ok
    /\ fetch[1].val.wind_dir # station.static_weather.wind.dir
    /\ fetch[1].val.wind_speed # station.static_weather.wind.speed
    /\ weather[1].wind_dir = station.static_weather.wind.dir
    /\ Len(queried) = 1

\* C9: the information letter of report n is entry n mod 26 of the alphabet Alpha to
\* Zulu (0 Alpha, 25 Zulu, 26 Alpha again), and the opening and the closing sentence
\* of the report carry that same letter.
C9_InformationLetter ==
    Reported =>
        LET letter == PHONETIC_ALPHABET[(report_nr % 26) + 1]
            ls == ReportLines
        IN  /\ Len(PHONETIC_ALPHABET) = 26
            /\ report_nr \in {0, 26} => letter = "Alpha"
            /\ report_nr = 25 => letter = "Zulu"
            /\ ls[1] = "This is " \o station.name \o " information " \o letter
            /\ ls[Len(ls)] = "End information " \o letter

C9_Witness ==
    /\ Reported
    /\ report_nr = 26
    /\ StartsWith(result[1].val, "This is Kutaisi information Alpha. ")
    /\ LET ls == ReportLines IN ls[Len(ls)] = "End information Alpha"

====
